---- MODULE Spec2Model ----
(***************************************************************************)
(* Incident lifecycle of gestion_incidencias: the application service      *)
(* (IncidentApplicationService) over the persistence adapter               *)
(* (IncidentAdapter).  The store is the `incidencias` table.               *)
(*                                                                         *)
(* Spec     : every service operation runs to completion, one at a time,   *)
(*            against an available database; inputs range over status,     *)
(*            reporter and assignee.                                       *)
(* SpecConc : requests interleave at their awaits (one gateway call per    *)
(*            step) and a gateway call may throw.                          *)
(* SpecRace : two callers of changeIncidentStatus interleave.              *)
(* SpecData : operations run to completion while the clock advances;       *)
(*            inputs range over every field of the incident.               *)
(* SpecStats: getIncidentStatistics (both implementations) and             *)
(*            getAllIncidents over a stored set of incidents.              *)
(* SpecCat  : createCategory and updateCategory of                         *)
(*            CategoryApplicationService, interleaved at their awaits.     *)
(* SpecHttp : the requests of the incident routes, through                 *)
(*            IncidentController, one at a time.                           *)
(***************************************************************************)
EXTENDS Integers, Sequences, FiniteSets, TLC

VARIABLES store, nextId, last, reqs, now, stat, cats, creqs, http

vars == <<store, nextId, last, reqs, now, stat, cats, creqs, http>>

\* the state of the queries, of the categories and of the HTTP layer
queryVars == <<stat, cats, creqs, http>>

(* ---------------------------- bounds ----------------------------------- *)
MaxIncidents == 1
MaxUser == 2
\* categories and priorities that exist
MaxRef == 2
\* whitespace around a title or a description
MaxPad == 1
\* calls of one behaviour of SpecData (one clock tick each)
MaxTime == 2

Ids == 1..MaxIncidents
Users == 1..MaxUser
Refs == 1..MaxRef
\* the two requests in flight of SpecConc and SpecRace
Procs == {"a", "b"}

(* ---------------------------- values ----------------------------------- *)
\* a property that the caller's object does not carry (undefined)
Undef == 0 - 1
\* null: a column that is NULL in the table, an explicit null of the caller
Null == 0 - 2
\* a negative number given as an id
NegId == 0 - 7

Estados == {"abierta", "en_progreso", "cerrada"}
NoEstado == "undefined"

\* a string, by its length: txt characters between the first and the last
\* non-blank character, pad blank characters around them; ok says that every
\* character is one the title pattern allows
Str(pad, txt, ok) == [pad |-> pad, txt |-> txt, ok |-> ok]
\* a string property that is undefined, and one that is null
NoStr == Str(0, 0 - 1, TRUE)
NullStr == Str(0, 0 - 2, TRUE)
IsStr(s) == s.txt >= 0
Length(s) == s.pad + s.txt
\* String.prototype.trim
Trim(s) == [s EXCEPT !.pad = 0]
\* JavaScript truthiness of an optional string: undefined, null and "" are falsy
TruthyStr(s) == IsStr(s) /\ Length(s) > 0

\* JavaScript truthiness of an optional number: undefined, null and 0 are falsy
Truthy(x) == x # Null /\ x # Undef /\ x # 0

MinTitulo == 5
MaxTitulo == 150
MaxDescripcion == 5000

\* no row / getIncidentById's null
NoRow ==
  [estado |-> "none", usuarioId |-> Null, soporteId |-> Null, titulo |-> NoStr,
   descripcion |-> NoStr, categoriaId |-> Null, prioridadId |-> Null,
   creadoEn |-> 0, actualizadoEn |-> 0]

\* messages of the errors the service and the adapter throw
ErrIdPositivo == "El ID de la incidencia debe ser un numero positivo"
ErrNoEncontrada == "Incidencia no encontrada"
ErrSoloCerradas == "Solo se pueden eliminar incidencias cerradas"
ErrAsignarCerrada == "No se puede asignar una incidencia cerrada"
ErrTransicion == "No se puede cambiar de estado"
ErrTituloObligatorio == "El titulo de la incidencia es obligatorio"
ErrTituloCorto == "El titulo debe tener al menos 5 caracteres"
ErrTituloLargo == "El titulo no puede exceder los 150 caracteres"
ErrTituloCaracteres == "El titulo contiene caracteres no validos"
ErrDescripcion == "La descripcion no puede exceder los 5000 caracteres"
ErrUsuarioId == "El ID del usuario reportador es obligatorio y debe ser valido"
ErrCategoriaId == "El ID de la categoria es obligatorio y debe ser valido"
ErrPrioridadId == "El ID de la prioridad es obligatorio y debe ser valido"
ErrSoporteId == "El ID del tecnico de soporte debe ser valido"
ErrEstado == "El estado debe ser: abierta, en_progreso o cerrada"
ErrMismoUsuario == "El usuario reportador no puede ser el mismo que el tecnico de soporte"
ErrInfra == "Error de base de datos"
TypeErrorUndefined == "TypeError: Cannot read properties of undefined"

ValidationErrors ==
  {ErrIdPositivo, ErrSoloCerradas, ErrAsignarCerrada, ErrTransicion,
   ErrTituloObligatorio, ErrTituloCorto, ErrTituloLargo, ErrTituloCaracteres,
   ErrDescripcion, ErrUsuarioId, ErrCategoriaId, ErrPrioridadId,
   ErrSoporteId, ErrEstado, ErrMismoUsuario}

\* the outcome of a call: a returned value or a thrown message, the store
\* after it, and the status write it issued (<<from, to>>, or <<>>)
Out(r, st, w) == [res |-> r, st |-> st, sw |-> w]

(* --------------------- validateStatusTransition ------------------------ *)
transicionesValidas ==
  [abierta |-> {"en_progreso", "cerrada"},
   en_progreso |-> {"abierta", "cerrada"},
   cerrada |-> {"abierta"}]

transicionesConSalto ==
  [abierta |-> {"en_progreso", "cerrada"},
   en_progreso |-> {"abierta", "cerrada"},
   cerrada |-> {"abierta", "en_progreso"}]

ValidStatusTransitionSkip(estadoActual, nuevoEstado) ==
  nuevoEstado \in transicionesConSalto[estadoActual]

\* TRUE iff validateStatusTransition returns without throwing
ValidStatusTransition(estadoActual, nuevoEstado) ==
  nuevoEstado \in transicionesValidas[estadoActual]

(* ------------------------- IncidentAdapter ----------------------------- *)
Exists(st, id) == id \in Ids /\ st[id] # NoRow

\* the row of the table, as stored
Row(st, id) == IF Exists(st, id) THEN st[id] ELSE NoRow

\* toDomain: soporte_id ?? undefined; the other columns as they are read
ToDomain(entity) ==
  [entity EXCEPT !.soporteId = IF entity.soporteId = Null THEN Undef ELSE entity.soporteId]

PortGetIncidentById(st, id) == IF Exists(st, id) THEN ToDomain(st[id]) ELSE NoRow

\* the foreign keys of the entity: a user, category or priority id that is
\* not positive references no row
FkUser(x) == x = Null \/ x \in Users
FkRef(x) == x \in Refs

\* actualizado_en has ON UPDATE CURRENT_TIMESTAMP: refreshed when an UPDATE
\* changes the value of a column
Written(old, new) == IF new = old THEN old ELSE [new EXCEPT !.actualizadoEn = now]

\* toEntity + save: estado || "abierta"; a property that is undefined is
\* stored as NULL; creado_en and actualizado_en default to CURRENT_TIMESTAMP
PortCreateIncident(st, nid, inc) ==
  [st EXCEPT ![nid] =
     [estado |-> IF inc.estado = NoEstado THEN "abierta" ELSE inc.estado,
      usuarioId |-> inc.usuarioId,
      soporteId |-> IF inc.soporteId = Undef THEN Null ELSE inc.soporteId,
      titulo |-> inc.titulo,
      descripcion |-> IF IsStr(inc.descripcion) THEN inc.descripcion ELSE NullStr,
      categoriaId |-> inc.categoriaId,
      prioridadId |-> inc.prioridadId,
      creadoEn |-> now,
      actualizadoEn |-> now]]

\* UPDATE ... SET estado WHERE id, guarded by the transition table
PortChangeIncidentStatusGuarded(st, id, estado) ==
  IF Exists(st, id) /\ ValidStatusTransition(st[id].estado, estado)
  THEN Out("true", [st EXCEPT ![id] = Written(@, [@ EXCEPT !.estado = estado])],
           <<st[id].estado, estado>>)
  ELSE Out("false", st, <<>>)

\* UPDATE incidencias SET estado = :estado WHERE id_incidencias = :id
PortChangeIncidentStatus(st, id, estado) ==
  IF Exists(st, id)
  THEN Out("true", [st EXCEPT ![id] = Written(@, [@ EXCEPT !.estado = estado])],
           <<st[id].estado, estado>>)
  ELSE Out("false", st, <<>>)

PortAssignIncidentUsersOnly(st, id, soporteId) ==
  IF ~Exists(st, id) \/ soporteId = Null THEN Out("false", st, <<>>)
  ELSE IF ~FkUser(soporteId) THEN Out(ErrInfra, st, <<>>)
  ELSE Out("true", [st EXCEPT ![id] = Written(@, [@ EXCEPT !.soporteId = soporteId])], <<>>)

\* UPDATE incidencias SET soporte_id = :soporteId WHERE id_incidencias = :id
PortAssignIncident(st, id, soporteId) ==
  IF ~Exists(st, id) THEN Out("false", st, <<>>)
  ELSE IF ~FkUser(soporteId) THEN Out(ErrInfra, st, <<>>)
  ELSE Out("true", [st EXCEPT ![id] = Written(@, [@ EXCEPT !.soporteId = soporteId])], <<>>)

UpdatedFieldsAll(row, inc) ==
  [row EXCEPT
     !.titulo = IF inc.titulo # NoStr THEN inc.titulo ELSE @,
     !.descripcion = IF inc.descripcion # NoStr THEN inc.descripcion ELSE NullStr,
     !.estado = IF inc.estado # NoEstado THEN inc.estado ELSE @,
     !.soporteId = IF inc.soporteId # Undef THEN inc.soporteId ELSE Null,
     !.categoriaId = IF inc.categoriaId # Undef THEN inc.categoriaId ELSE @,
     !.prioridadId = IF inc.prioridadId # Undef THEN inc.prioridadId ELSE @]

\* the columns updateIncident sets: the properties that are not undefined
UpdatedFields(row, inc) ==
  [row EXCEPT
     !.titulo = IF inc.titulo # NoStr THEN inc.titulo ELSE @,
     !.descripcion = IF inc.descripcion # NoStr THEN inc.descripcion ELSE @,
     !.estado = IF inc.estado # NoEstado THEN inc.estado ELSE @,
     !.soporteId = IF inc.soporteId # Undef THEN inc.soporteId ELSE @,
     !.categoriaId = IF inc.categoriaId # Undef THEN inc.categoriaId ELSE @,
     !.prioridadId = IF inc.prioridadId # Undef THEN inc.prioridadId ELSE @]

NoFields(inc) ==
  /\ inc.titulo = NoStr /\ inc.descripcion = NoStr /\ inc.estado = NoEstado
  /\ inc.soporteId = Undef /\ inc.categoriaId = Undef /\ inc.prioridadId = Undef

\* findOne, then UPDATE of the fields that are not undefined
PortUpdateIncident(st, id, inc) ==
  IF ~Exists(st, id) THEN Out("false", st, <<>>)
  ELSE IF NoFields(inc) THEN Out("true", st, <<>>)
  ELSE IF \/ inc.soporteId # Undef /\ ~FkUser(inc.soporteId)
          \/ inc.categoriaId # Undef /\ ~FkRef(inc.categoriaId)
          \/ inc.prioridadId # Undef /\ ~FkRef(inc.prioridadId)
       THEN Out(ErrInfra, st, <<>>)
  ELSE Out("true",
           [st EXCEPT ![id] = Written(@, UpdatedFields(@, inc))],
           IF inc.estado # NoEstado THEN <<st[id].estado, inc.estado>> ELSE <<>>)

\* the adapter's deleteIncident calls this.port.getIncidentById, and the
\* adapter's `port` field is declared but never assigned
PortDeleteIncident(st, id) == Out(TypeErrorUndefined, st, <<>>)

(* -------------------- IncidentApplicationService ----------------------- *)
ValidateTitleOffByOne(titulo) ==
  IF Length(titulo) <= MinTitulo THEN ErrTituloCorto
  ELSE IF Length(titulo) > MaxTitulo THEN ErrTituloLargo
  ELSE IF ~titulo.ok THEN ErrTituloCaracteres
  ELSE ""

\* validateTitle: "" when it passes, the message it throws otherwise
ValidateTitle(titulo) ==
  IF Length(titulo) < MinTitulo THEN ErrTituloCorto
  ELSE IF Length(titulo) > MaxTitulo THEN ErrTituloLargo
  ELSE IF ~titulo.ok THEN ErrTituloCaracteres
  ELSE ""

\* validateDescription
ValidateDescription(descripcion) ==
  IF TruthyStr(descripcion) /\ Length(descripcion) > MaxDescripcion THEN ErrDescripcion
  ELSE ""

\* validateIncidentData
ValidateIncidentData(inc) ==
  IF ~TruthyStr(inc.titulo) \/ Length(Trim(inc.titulo)) = 0 THEN ErrTituloObligatorio
  ELSE IF ValidateTitle(inc.titulo) # "" THEN ValidateTitle(inc.titulo)
  ELSE IF inc.descripcion # NoStr /\ ValidateDescription(inc.descripcion) # ""
       THEN ValidateDescription(inc.descripcion)
  ELSE IF ~Truthy(inc.usuarioId) \/ inc.usuarioId <= 0 THEN ErrUsuarioId
  ELSE IF ~Truthy(inc.categoriaId) \/ inc.categoriaId <= 0 THEN ErrCategoriaId
  ELSE IF ~Truthy(inc.prioridadId) \/ inc.prioridadId <= 0 THEN ErrPrioridadId
  ELSE IF inc.soporteId # Undef /\ inc.soporteId <= 0 THEN ErrSoporteId
  ELSE IF inc.estado # NoEstado /\ inc.estado \notin Estados THEN ErrEstado
  ELSE ""

ValidateReferencesNone(inc) == ""

\* validateReferences
ValidateReferences(inc) ==
  IF Truthy(inc.soporteId) /\ inc.soporteId = inc.usuarioId THEN ErrMismoUsuario
  ELSE ""

\* createIncident's incidentToCreate: titulo.trim(), descripcion?.trim(),
\* estado || "abierta"
IncidentToCreate(inc) ==
  [inc EXCEPT !.titulo = Trim(inc.titulo),
              !.descripcion = IF IsStr(inc.descripcion) THEN Trim(inc.descripcion) ELSE NoStr,
              !.estado = IF inc.estado = NoEstado THEN "abierta" ELSE inc.estado]

SvcCreateIncidentWriteFirst(st, nid, inc) ==
  IF ValidateIncidentData(inc) # "" THEN Out(ValidateIncidentData(inc), st, <<>>)
  ELSE IF ValidateReferences(IncidentToCreate(inc)) # ""
       THEN Out(ValidateReferences(IncidentToCreate(inc)),
                PortCreateIncident(st, nid, IncidentToCreate(inc)), <<>>)
  ELSE Out("id", PortCreateIncident(st, nid, IncidentToCreate(inc)), <<>>)

\* createIncident: the new id is nid
SvcCreateIncident(st, nid, inc) ==
  IF ValidateIncidentData(inc) # "" THEN Out(ValidateIncidentData(inc), st, <<>>)
  ELSE IF ValidateReferences(IncidentToCreate(inc)) # ""
       THEN Out(ValidateReferences(IncidentToCreate(inc)), st, <<>>)
  ELSE Out("id", PortCreateIncident(st, nid, IncidentToCreate(inc)), <<>>)

\* getIncidentById
SvcGetIncidentById(st, id) ==
  IF id <= 0 THEN Out(ErrIdPositivo, st, <<>>)
  ELSE Out(IF Exists(st, id) THEN "row" ELSE "null", st, <<>>)

\* the checks of updateIncident before its gateway call: "" when they pass
UpdateChecksNoTransition(existingIncident, inc) ==
  IF existingIncident = NoRow THEN ErrNoEncontrada
  ELSE IF TruthyStr(inc.titulo) /\ ValidateTitle(inc.titulo) # "" THEN ValidateTitle(inc.titulo)
  ELSE IF inc.descripcion # NoStr /\ ValidateDescription(inc.descripcion) # ""
       THEN ValidateDescription(inc.descripcion)
  ELSE ""

UpdateChecks(existingIncident, inc) ==
  IF existingIncident = NoRow THEN ErrNoEncontrada
  ELSE IF TruthyStr(inc.titulo) /\ ValidateTitle(inc.titulo) # "" THEN ValidateTitle(inc.titulo)
  ELSE IF inc.descripcion # NoStr /\ ValidateDescription(inc.descripcion) # ""
       THEN ValidateDescription(inc.descripcion)
  ELSE IF inc.estado # NoEstado /\ ~ValidStatusTransition(existingIncident.estado, inc.estado)
       THEN ErrTransicion
  ELSE ""

\* updateIncident's incidentToUpdate: the properties it copies from the input
IncidentToUpdate(inc) ==
  [titulo |-> IF TruthyStr(inc.titulo) THEN Trim(inc.titulo) ELSE NoStr,
   descripcion |-> IF IsStr(inc.descripcion) THEN Trim(inc.descripcion) ELSE NoStr,
   estado |-> inc.estado,
   soporteId |-> inc.soporteId,
   categoriaId |-> IF Truthy(inc.categoriaId) THEN inc.categoriaId ELSE Undef,
   prioridadId |-> IF Truthy(inc.prioridadId) THEN inc.prioridadId ELSE Undef]

SvcUpdateIncident(st, id, inc) ==
  LET existingIncident == PortGetIncidentById(st, id) IN
  IF UpdateChecks(existingIncident, inc) # ""
  THEN Out(UpdateChecks(existingIncident, inc), st, <<>>)
  ELSE PortUpdateIncident(st, id, IncidentToUpdate(inc))

\* the checks of changeIncidentStatus before its gateway call
ChangeStatusChecks(existingIncident, nuevoEstado) ==
  IF existingIncident = NoRow THEN ErrNoEncontrada
  ELSE IF ~ValidStatusTransition(existingIncident.estado, nuevoEstado) THEN ErrTransicion
  ELSE ""

SvcChangeIncidentStatus(st, id, nuevoEstado) ==
  LET existingIncident == PortGetIncidentById(st, id) IN
  IF ChangeStatusChecks(existingIncident, nuevoEstado) # ""
  THEN Out(ChangeStatusChecks(existingIncident, nuevoEstado), st, <<>>)
  ELSE PortChangeIncidentStatus(st, id, nuevoEstado)

\* the checks of assignIncident before its gateway calls
AssignChecksOpenOnly(existingIncident) ==
  IF existingIncident = NoRow THEN ErrNoEncontrada ELSE ""

AssignChecksNoLookup(existingIncident) ==
  IF existingIncident.estado = "cerrada" THEN ErrAsignarCerrada ELSE ""

AssignChecks(existingIncident) ==
  IF existingIncident = NoRow THEN ErrNoEncontrada
  ELSE IF existingIncident.estado = "cerrada" THEN ErrAsignarCerrada
  ELSE ""

FirstAssignmentNever(existingIncident, soporteId) == FALSE

FirstAssignmentAlways(existingIncident, soporteId) == TRUE

\* "Si se asigna por primera vez": soporteId && !existingIncident.soporteId
FirstAssignment(existingIncident, soporteId) ==
  Truthy(soporteId) /\ ~Truthy(existingIncident.soporteId)

SvcAssignIncident(st, id, soporteId) ==
  LET existingIncident == PortGetIncidentById(st, id) IN
  IF AssignChecks(existingIncident) # "" THEN Out(AssignChecks(existingIncident), st, <<>>)
  ELSE LET forced == IF FirstAssignment(existingIncident, soporteId)
                     THEN PortChangeIncidentStatus(st, id, "en_progreso")
                     ELSE Out("true", st, <<>>)
           assigned == PortAssignIncident(forced.st, id, soporteId)
       IN Out(assigned.res, assigned.st, forced.sw)

\* the checks of deleteIncident before its gateway call
DeleteChecksAnyStatus(id, existingIncident) ==
  IF id <= 0 THEN ErrIdPositivo
  ELSE IF existingIncident = NoRow THEN ErrNoEncontrada
  ELSE ""

DeleteChecks(id, existingIncident) ==
  IF id <= 0 THEN ErrIdPositivo
  ELSE IF existingIncident = NoRow THEN ErrNoEncontrada
  ELSE IF existingIncident.estado # "cerrada" THEN ErrSoloCerradas
  ELSE ""

SvcDeleteIncident(st, id) ==
  LET existingIncident == PortGetIncidentById(st, id) IN
  IF DeleteChecks(id, existingIncident) # "" THEN Out(DeleteChecks(id, existingIncident), st, <<>>)
  ELSE PortDeleteIncident(st, id)

(* ------------------------------ inputs --------------------------------- *)
IdInputs == 0..MaxIncidents
EstadoInputs == Estados
SoporteInputs == {Null} \cup Users

\* a partial object that carries no property
NoInput ==
  [estado |-> NoEstado, usuarioId |-> Undef, soporteId |-> Undef, titulo |-> NoStr,
   descripcion |-> NoStr, categoriaId |-> Undef, prioridadId |-> Undef]

TituloOk == Str(0, MinTitulo, TRUE)

\* a valid createIncident input that gives no estado, soporteId or descripcion
BaseInput ==
  [NoInput EXCEPT !.titulo = TituloOk, !.usuarioId = 1, !.categoriaId = 1, !.prioridadId = 1]

\* Spec: the inputs range over status, reporter and assignee
CreateInputs ==
  {[BaseInput EXCEPT !.estado = e, !.usuarioId = u, !.soporteId = s] :
     e \in Estados \cup {NoEstado}, u \in 0..MaxUser, s \in {Undef, Null} \cup Users}
UpdateInputs ==
  {[NoInput EXCEPT !.estado = e, !.soporteId = s] :
     e \in Estados \cup {NoEstado}, s \in {Undef, Null} \cup Users}

\* SpecData: the values of each property
TituloLens == {0, MinTitulo - 1, MinTitulo, MaxTitulo, MaxTitulo + 1}
TituloInputs ==
  {Str(p, t, TRUE) : p \in 0..MaxPad, t \in TituloLens} \cup {Str(0, MinTitulo, FALSE)}
DescripcionInputs ==
  {NullStr} \cup {Str(p, t, TRUE) : p \in 0..MaxPad, t \in {0, MaxDescripcion}}
InvalidEstado == "pendiente"
BadIds == {0, NegId}

\* the inputs that differ from b in at most one property
FieldVariants(b) ==
  {b}
  \cup {[b EXCEPT !.titulo = x] : x \in TituloInputs}
  \cup {[b EXCEPT !.descripcion = x] : x \in DescripcionInputs}
  \cup {[b EXCEPT !.estado = x] : x \in Estados \cup {InvalidEstado}}
  \cup {[b EXCEPT !.usuarioId = x] : x \in BadIds \cup Users}
  \cup {[b EXCEPT !.soporteId = x] : x \in {Null} \cup BadIds \cup Users}
  \cup {[b EXCEPT !.categoriaId = x] : x \in BadIds \cup Refs}
  \cup {[b EXCEPT !.prioridadId = x] : x \in BadIds \cup Refs}

DataCreateInputs == FieldVariants(BaseInput)
\* updateIncident's partial: one property, or estado and one more property
DataUpdateInputs ==
  FieldVariants(NoInput) \cup FieldVariants([NoInput EXCEPT !.estado = "en_progreso"])

\* a request slot: the call, its position (pc), the estado its read returned
\* (snap), what it returned or threw (res), and what it has written so far:
\* sw/aw (estado/soporte_id written), stale (its estado write replaced an
\* estado other than the one it validated, along a pair outside the table),
\* torn (its read saw the row between the two writes of an assignIncident)
Idle == [op |-> "idle", id |-> 0, inc |-> NoInput, pc |-> "idle", snap |-> "none",
         res |-> "", sw |-> FALSE, aw |-> FALSE, stale |-> FALSE, torn |-> FALSE]

(* ---------------- getIncidentStatistics, getAllIncidents --------------- *)
\* stored incidents the queries read
MaxRows == 2

\* clock units in an hour: creado_en and actualizado_en of the rows below
\* are counted in half hours
UnitsPerHour == 2

\* the label "Sin categoría" / "Sin prioridad"
SinNombre == 0

\* LEFT JOIN categorias / prioridades: the name of the row with this id (a
\* name stands for itself by the id of its row), NULL when there is none
RefName(id) == IF id \in Refs THEN id ELSE Null

\* stat.categoria_nombre || "Sin categoría"
Label(nombre) == IF nombre = Null THEN SinNombre ELSE nombre

NoFiltro ==
  [estado |-> NoEstado, usuarioId |-> Undef, soporteId |-> Undef, categoriaId |-> Undef,
   prioridadId |-> Undef, fechaDesde |-> Undef, fechaHasta |-> Undef]

\* the WHERE conditions of getIncidentStatistics
StatMatches(row, f) ==
  /\ f.fechaDesde # Undef => row.creadoEn >= f.fechaDesde
  /\ f.fechaHasta # Undef => row.creadoEn <= f.fechaHasta
  /\ Truthy(f.usuarioId) => row.usuarioId = f.usuarioId
  /\ Truthy(f.categoriaId) => row.categoriaId = f.categoriaId

StatSelected(rows, f) == SelectSeq(rows, LAMBDA r : StatMatches(r, f))

CountEstado(sel, e) == Cardinality({i \in DOMAIN sel : sel[i].estado = e})

RECURSIVE SumSeq(_)
SumSeq(s) == IF s = <<>> THEN 0 ELSE Head(s) + SumSeq(Tail(s))

Min(S) == CHOOSE x \in S : \A y \in S : x <= y

\* undefined tiempoPromedioResolucion
NoTiempo == [sum |-> 0, n |-> 0]

ErrEstadisticas == "Error al obtener estadisticas de incidencias"

\* GROUP BY field, name ORDER BY cantidad DESC, then porX[label] = cantidad
\* for each group in turn: of the groups with one label the last one, which
\* has the least cantidad, is the one that stays
GroupedBy(sel, field) ==
  LET keys == {sel[i][field] : i \in DOMAIN sel}
      cantidad(k) == Cardinality({i \in DOMAIN sel : sel[i][field] = k})
  IN [l \in {Label(RefName(k)) : k \in keys} |->
        Min({cantidad(k) : k \in {x \in keys : Label(RefName(x)) = l}})]

\* AVG(TIMESTAMPDIFF(HOUR, creado_en, actualizado_en)) over the cerrada
\* rows: whole hours of each row; the mean is sum / (n * UnitsPerHour) hours
GroupedTiempo(sel) ==
  LET c == SelectSeq(sel, LAMBDA r : r.estado = "cerrada") IN
  IF Len(c) = 0 THEN NoTiempo
  ELSE [sum |-> UnitsPerHour *
                SumSeq([i \in DOMAIN c |-> (c[i].actualizadoEn - c[i].creadoEn) \div UnitsPerHour]),
        n |-> Len(c)]

\* getIncidentStatistics with four grouped queries
GroupedStatistics(rows, f) ==
  LET sel == StatSelected(rows, f) IN
  [res |-> "ok",
   total |-> Len(sel),
   abiertas |-> CountEstado(sel, "abierta"),
   enProgreso |-> CountEstado(sel, "en_progreso"),
   cerradas |-> CountEstado(sel, "cerrada"),
   porCategoria |-> GroupedBy(sel, "categoriaId"),
   porPrioridad |-> GroupedBy(sel, "prioridadId"),
   tiempo |-> GroupedTiempo(sel)]

\* counts every label once
ReducedByPresence(sel, field) ==
  [l \in {Label(RefName(sel[i][field])) : i \in DOMAIN sel} |-> 1]

\* porX[label] = (porX[label] || 0) + 1 for each selected row
ReducedBy(sel, field) ==
  [l \in {Label(RefName(sel[i][field])) : i \in DOMAIN sel} |->
     Cardinality({i \in DOMAIN sel : Label(RefName(sel[i][field])) = l})]

\* the mean of (actualizado - creado) / (1000 * 60 * 60) over the cerrada rows
ReducedTiempo(sel) ==
  LET c == SelectSeq(sel, LAMBDA r : r.estado = "cerrada") IN
  IF Len(c) = 0 THEN NoTiempo
  ELSE [sum |-> SumSeq([i \in DOMAIN c |-> c[i].actualizadoEn - c[i].creadoEn]),
        n |-> Len(c)]

\* getIncidentStatistics with one query and a reduction in memory
MemoryStatistics(rows, f) ==
  LET sel == StatSelected(rows, f) IN
  [res |-> "ok",
   total |-> Len(sel),
   abiertas |-> CountEstado(sel, "abierta"),
   enProgreso |-> CountEstado(sel, "en_progreso"),
   cerradas |-> CountEstado(sel, "cerrada"),
   porCategoria |-> ReducedBy(sel, "categoriaId"),
   porPrioridad |-> ReducedBy(sel, "prioridadId"),
   tiempo |-> ReducedTiempo(sel)]

ErrFiltroUsuario == "El ID del usuario debe ser un numero positivo"
ErrFiltroSoporte == "El ID del tecnico de soporte debe ser un numero positivo"
ErrFiltroCategoria == "El ID de la categoria debe ser un numero positivo"
ErrFiltroPrioridad == "El ID de la prioridad debe ser un numero positivo"
ErrFiltroFechas == "La fecha de inicio no puede ser mayor que la fecha de fin"

FilterErrors ==
  {ErrFiltroUsuario, ErrFiltroSoporte, ErrFiltroCategoria, ErrFiltroPrioridad,
   ErrFiltroFechas, ErrEstado}

ValidateFiltersNoDates(f) ==
  IF f.usuarioId # Undef /\ f.usuarioId <= 0 THEN ErrFiltroUsuario
  ELSE IF f.soporteId # Undef /\ f.soporteId <= 0 THEN ErrFiltroSoporte
  ELSE IF f.categoriaId # Undef /\ f.categoriaId <= 0 THEN ErrFiltroCategoria
  ELSE IF f.prioridadId # Undef /\ f.prioridadId <= 0 THEN ErrFiltroPrioridad
  ELSE IF f.estado # NoEstado /\ f.estado \notin Estados THEN ErrEstado
  ELSE ""

\* validateFilters: "" when it passes, the message it throws otherwise
ValidateFilters(f) ==
  IF f.usuarioId # Undef /\ f.usuarioId <= 0 THEN ErrFiltroUsuario
  ELSE IF f.soporteId # Undef /\ f.soporteId <= 0 THEN ErrFiltroSoporte
  ELSE IF f.categoriaId # Undef /\ f.categoriaId <= 0 THEN ErrFiltroCategoria
  ELSE IF f.prioridadId # Undef /\ f.prioridadId <= 0 THEN ErrFiltroPrioridad
  ELSE IF f.fechaDesde # Undef /\ f.fechaHasta # Undef /\ f.fechaDesde > f.fechaHasta
       THEN ErrFiltroFechas
  ELSE IF f.estado # NoEstado /\ f.estado \notin Estados THEN ErrEstado
  ELSE ""

\* the WHERE conditions of the adapter's getAllIncidents
ListMatches(row, f) ==
  /\ f.estado # NoEstado => row.estado = f.estado
  /\ Truthy(f.usuarioId) => row.usuarioId = f.usuarioId
  /\ Truthy(f.soporteId) => row.soporteId = f.soporteId
  /\ Truthy(f.categoriaId) => row.categoriaId = f.categoriaId
  /\ Truthy(f.prioridadId) => row.prioridadId = f.prioridadId
  /\ f.fechaDesde # Undef => row.creadoEn >= f.fechaDesde
  /\ f.fechaHasta # Undef => row.creadoEn <= f.fechaHasta

\* the adapter's getAllIncidents: the rows the query selects
PortGetAllIncidents(rows, f) == SelectSeq(rows, LAMBDA r : ListMatches(r, f))

\* the service's getAllIncidents: what it returns or throws, whether it
\* called the gateway, and the rows the gateway gave
SvcGetAllIncidents(rows, f) ==
  IF ValidateFilters(f) # ""
  THEN [res |-> ValidateFilters(f), queried |-> FALSE, rows |-> <<>>]
  ELSE [res |-> "rows", queried |-> TRUE, rows |-> PortGetAllIncidents(rows, f)]

\* getIncidentStatistics when a query of it is rejected: the catch throws
StatFailed == [GroupedStatistics(<<>>, NoFiltro) EXCEPT !.res = ErrEstadisticas]

\* the grouped queries are raw SQL with :name placeholders and an object of
\* parameters: whether the driver binds them is not settled by this code
HasConditions(f) ==
  \/ f.fechaDesde # Undef \/ f.fechaHasta # Undef
  \/ Truthy(f.usuarioId) \/ Truthy(f.categoriaId)

\* the queries made so far (ran) over the stored rows, with their filter
\* and what each returned
NoStat ==
  [rows |-> <<>>, filtro |-> NoFiltro, ran |-> {},
   grouped |-> GroupedStatistics(<<>>, NoFiltro),
   memory |-> MemoryStatistics(<<>>, NoFiltro),
   listed |-> [res |-> "", queried |-> FALSE, rows |-> <<>>]]

(* ----------------------- IncidentController --------------------------- *)
\* the answer to the last HTTP request: its status, and whether the
\* controller called the service
NoResponse == [status |-> 0, called |-> FALSE]

ErrController == "controller validation"
ErrEliminar == "Error al eliminar la incidencia"

\* error.message.includes(word): the messages of the service and of the
\* gateway that contain the word (the message of validateStatusTransition
\* names both statuses and so contains "cerrada" for some pairs; the
\* handler that asks for "cerrada" is assignIncident's, which never gets it)
ConObligatorio == {ErrTituloObligatorio, ErrUsuarioId, ErrCategoriaId, ErrPrioridadId}
ConValido ==
  {ErrUsuarioId, ErrCategoriaId, ErrPrioridadId, ErrSoporteId, ErrTituloCaracteres}
ConCaracteres == {ErrTituloCorto, ErrTituloLargo, ErrTituloCaracteres, ErrDescripcion}
ConNoExiste == {}
ConNoEncontrada == {ErrNoEncontrada}
ConTransicion == {}
ConCerrada == {ErrAsignarCerrada, ErrEstado, ErrSoloCerradas}

\* the messages a catch block answers with 400
BusinessErrors(words) == UNION words

CreateWords == {ConObligatorio, ConValido, ConCaracteres, ConNoExiste}
UpdateWords == {ConNoEncontrada, ConTransicion, ConValido}
ChangeStatusWords == {ConTransicion, ConNoEncontrada}
AssignWords == {ConNoEncontrada, ConCerrada}

\* the catch block of a handler: 400 for the messages it recognises, 500
\* for the others
CatchStatus(msg, words) == IF msg \in BusinessErrors(words) THEN 400 ELSE 500

\* createIncident's checks of req.body: TRUE when the body passes
CtlCreateAccepts(body) ==
  /\ TruthyStr(body.titulo) /\ Length(Trim(body.titulo)) > 0
  /\ Truthy(body.usuarioId) /\ body.usuarioId > 0
  /\ Truthy(body.categoriaId) /\ body.categoriaId > 0
  /\ Truthy(body.prioridadId) /\ body.prioridadId > 0
  /\ Length(body.titulo) >= MinTitulo /\ Length(body.titulo) <= MaxTitulo
  /\ ~(TruthyStr(body.descripcion) /\ Length(body.descripcion) > MaxDescripcion)
  /\ body.soporteId # Undef => (body.soporteId # Null /\ body.soporteId > 0)

\* the incident createIncident hands to the service
CtlCreateIncidentOf(body) ==
  [NoInput EXCEPT !.titulo = Trim(body.titulo),
                  !.descripcion = IF TruthyStr(body.descripcion) THEN Trim(body.descripcion) ELSE NoStr,
                  !.estado = "abierta",
                  !.usuarioId = body.usuarioId,
                  !.soporteId = IF Truthy(body.soporteId) THEN body.soporteId ELSE Undef,
                  !.categoriaId = body.categoriaId,
                  !.prioridadId = body.prioridadId]

\* updateIncident's checks of req.params.id and req.body
CtlUpdateAccepts(id, body) ==
  /\ id > 0
  /\ ~(/\ ~TruthyStr(body.titulo) /\ body.descripcion = NoStr /\ body.estado = NoEstado
       /\ body.soporteId = Undef /\ ~Truthy(body.categoriaId) /\ ~Truthy(body.prioridadId))
  /\ TruthyStr(body.titulo) =>
       (Length(Trim(body.titulo)) >= MinTitulo /\ Length(Trim(body.titulo)) <= MaxTitulo)
  /\ ~(TruthyStr(body.descripcion) /\ Length(body.descripcion) > MaxDescripcion)
  /\ body.estado # NoEstado => body.estado \in Estados
  /\ (body.soporteId # Undef /\ body.soporteId # Null) => body.soporteId > 0
  /\ Truthy(body.categoriaId) => body.categoriaId > 0
  /\ Truthy(body.prioridadId) => body.prioridadId > 0

\* the partial updateIncident hands to the service
CtlIncidentUpdateOf(body) ==
  [NoInput EXCEPT !.titulo = IF TruthyStr(body.titulo) THEN Trim(body.titulo) ELSE NoStr,
                  !.descripcion = IF body.descripcion = NoStr THEN NoStr
                                  ELSE IF TruthyStr(body.descripcion) THEN Trim(body.descripcion)
                                  ELSE NoStr,
                  !.estado = body.estado,
                  !.soporteId = body.soporteId,
                  !.categoriaId = IF Truthy(body.categoriaId) THEN body.categoriaId ELSE Undef,
                  !.prioridadId = IF Truthy(body.prioridadId) THEN body.prioridadId ELSE Undef]

\* changeIncidentStatus's checks
CtlChangeStatusAccepts(id, estado) == id > 0 /\ estado \in Estados

\* assignIncident's checks
CtlAssignAccepts(id, soporteId) ==
  id > 0 /\ (soporteId # Null => (soporteId # Undef /\ soporteId > 0))

\* the answer of a handler to what the service returned or threw
CtlStatus(res, okStatus, words) ==
  IF res = "id" \/ res = "true" THEN okStatus
  ELSE IF res = "false" THEN 404
  ELSE CatchStatus(res, words)

\* a deleteIncident whose repository is there: it removes the row it finds
CtlDeleteIncidentWithRepository(st, id) ==
  IF Exists(st, id) THEN Out("true", [st EXCEPT ![id] = NoRow], <<>>)
  ELSE Out(ErrEliminar, st, <<>>)

\* the controller's deleteIncident reads this.incidentRepository, a field
\* that is declared and never assigned: findOne of undefined throws, and
\* the catch throws "Error al eliminar la incidencia"
CtlDeleteIncident(st, id) == Out(ErrEliminar, st, <<>>)

(* ------------------------- categorias ---------------------------------- *)
\* rows of categorias
MaxCats == 2
\* different category names (after trim)
MaxNames == 2

CatIds == 1..MaxCats

MinNombre == 3
MaxNombre == 100

\* a category name: which text it is once trimmed (txt), the length of
\* that text, and the whitespace before it (pad)
Nombre(txt, pad) == [txt |-> txt, len |-> MinNombre, pad |-> pad]
NoNombre == [txt |-> 0, len |-> 0, pad |-> 0]
TrimNombre(n) == [n EXCEPT !.pad = 0]

NoCat == [nombre |-> NoNombre]
NoCats == [i \in CatIds |-> NoCat]

ErrNombreObligatorio == "El nombre de la categoria es obligatorio"
ErrNombreCorto == "El nombre de la categoria debe tener al menos 3 caracteres"
ErrNombreLargo == "El nombre de la categoria no puede exceder los 100 caracteres"
ErrYaExiste == "Ya existe una categoria con este nombre"
ErrYaExisteOtra == "Ya existe otra categoria con este nombre"
ErrCatNoEncontrada == "Categoria no encontrada"
ErrCrearCategoria == "Error al crear la categoria en la base de datos"
ErrActualizarCategoria == "Error al actualizar la categoria"

\* validateCategoryName, on the name as given
ValidateCategoryName(n) ==
  IF n.pad + n.len < MinNombre THEN ErrNombreCorto
  ELSE IF n.pad + n.len > MaxNombre THEN ErrNombreLargo
  ELSE ""

\* validateCategoryData
ValidateCategoryData(n) ==
  IF n = NoNombre \/ n.len = 0 THEN ErrNombreObligatorio ELSE ValidateCategoryName(n)

\* CategoryAdapter.getCategoryByName: findOne({where: {nombre}}), the id of
\* a row with exactly this name, 0 for null
PortGetCategoryByName(c, n) ==
  IF \E i \in CatIds : c[i] # NoCat /\ c[i].nombre = n
  THEN CHOOSE i \in CatIds : c[i] # NoCat /\ c[i].nombre = n
  ELSE 0

\* without the unique index, no write is rejected
UniqueViolationNever(c, id, n) == FALSE

\* @Column({unique: true}) on nombre: the table rejects a row whose name
\* another row carries
UniqueViolation(c, id, n) ==
  \E i \in CatIds : i # id /\ c[i] # NoCat /\ c[i].nombre = n

FreeCatIds(c) == {i \in CatIds : c[i] = NoCat}

\* CategoryAdapter.createCategory: save(toEntity(category))
PortCreateCategory(c, n) ==
  IF UniqueViolation(c, 0, n) THEN [res |-> ErrCrearCategoria, cats |-> c]
  ELSE [res |-> "id", cats |-> [c EXCEPT ![Min(FreeCatIds(c))] = [nombre |-> n]]]

\* CategoryAdapter.updateCategory: findOne, Object.assign, save
PortUpdateCategory(c, id, n) ==
  IF c[id] = NoCat THEN [res |-> "false", cats |-> c]
  ELSE IF n = NoNombre THEN [res |-> "true", cats |-> c]
  ELSE IF UniqueViolation(c, id, n) THEN [res |-> ErrActualizarCategoria, cats |-> c]
  ELSE [res |-> "true", cats |-> [c EXCEPT ![id] = [nombre |-> n]]]

\* createCategory after its lookup: found is the id getCategoryByName gave
CreateCategoryChecks(found) == IF found # 0 THEN ErrYaExiste ELSE ""

\* updateCategory after its lookup
UpdateCategoryChecks(found, id) == IF found # 0 /\ found # id THEN ErrYaExisteOtra ELSE ""

\* a category request: the call, its position and what it returned or threw
CatIdle == [op |-> "idle", id |-> 0, nombre |-> NoNombre, pc |-> "idle", res |-> ""]

(* ------------------- Spec: operations run to completion ---------------- *)
\* what the last completed call was, the row it found, what it returned or
\* threw and, for getIncidentById, the object it returned
Done(op, id, inc, out) ==
  /\ store' = out.st
  /\ last' = [op |-> op, id |-> id, inc |-> inc, pre |-> Row(store, id),
              res |-> out.res, sw |-> out.sw,
              got |-> IF op = "get" THEN PortGetIncidentById(store, id) ELSE NoRow]
  /\ UNCHANGED <<reqs, queryVars>>

\* the value of the part of the state that a specification leaves alone
Unused == <<>>

Init ==
  /\ store = [i \in Ids |-> NoRow]
  /\ nextId = 1
  /\ last = [op |-> "none", id |-> 0, inc |-> NoInput, pre |-> NoRow, res |-> "",
             sw |-> <<>>, got |-> NoRow]
  /\ reqs = [p \in Procs |-> Idle]
  /\ now = 0
  /\ stat = Unused
  /\ cats = Unused
  /\ creqs = Unused
  /\ http = NoResponse

CreateIncident ==
  \E inc \in CreateInputs :
    /\ nextId <= MaxIncidents
    /\ LET out == SvcCreateIncident(store, nextId, inc) IN
         /\ Done("create", nextId, [NoInput EXCEPT !.estado = inc.estado,
                                                   !.soporteId = inc.soporteId], out)
         /\ nextId' = IF out.res = "id" THEN nextId + 1 ELSE nextId
    /\ UNCHANGED now

UpdateIncident ==
  \E id \in IdInputs, inc \in UpdateInputs :
    /\ Done("update", id, inc, SvcUpdateIncident(store, id, inc))
    /\ UNCHANGED <<nextId, now>>

ChangeIncidentStatus ==
  \E id \in IdInputs, nuevoEstado \in EstadoInputs :
    /\ Done("changeStatus", id, [NoInput EXCEPT !.estado = nuevoEstado],
            SvcChangeIncidentStatus(store, id, nuevoEstado))
    /\ UNCHANGED <<nextId, now>>

AssignIncident ==
  \E id \in IdInputs, soporteId \in SoporteInputs :
    /\ Done("assign", id, [NoInput EXCEPT !.soporteId = soporteId],
            SvcAssignIncident(store, id, soporteId))
    /\ UNCHANGED <<nextId, now>>

DeleteIncident ==
  \E id \in IdInputs :
    /\ Done("delete", id, NoInput, SvcDeleteIncident(store, id))
    /\ UNCHANGED <<nextId, now>>

Next ==
  \/ CreateIncident
  \/ UpdateIncident
  \/ ChangeIncidentStatus
  \/ AssignIncident
  \/ DeleteIncident

Spec == Init /\ [][Next]_vars

(* ------------- SpecConc: requests interleave at their awaits ----------- *)
\* the row is between the two gateway writes of another request's first
\* assignment: estado already forced, soporte_id still null
Torn(p, id) ==
  \E q \in Procs \ {p} :
    /\ reqs[q].op = "assign" /\ reqs[q].pc = "wassign" /\ reqs[q].sw /\ reqs[q].id = id
    /\ store[id].estado = "en_progreso" /\ store[id].soporteId = Null

Ended(r, res) == [r EXCEPT !.pc = "done", !.res = res, !.inc = NoInput]

\* a request arrives and runs up to its first gateway write: getIncidentById
\* and the checks on the row it returned
BeginChecks(op, id, inc, existingIncident) ==
  CASE op = "update" -> UpdateChecks(existingIncident, inc)
    [] op = "changeStatus" -> ChangeStatusChecks(existingIncident, inc.estado)
    [] op = "assign" -> AssignChecks(existingIncident)
    [] op = "delete" -> DeleteChecks(id, existingIncident)
    [] OTHER -> ""

BeginInputs(op) ==
  CASE op = "update" -> UpdateInputs
    [] op = "changeStatus" -> {[NoInput EXCEPT !.estado = e] : e \in EstadoInputs}
    [] op = "assign" -> {[NoInput EXCEPT !.soporteId = x] : x \in SoporteInputs}
    [] OTHER -> {NoInput}

Begin(p, ops) ==
  /\ reqs[p].pc = "idle"
  /\ \E op \in ops, id \in IdInputs :
       \E inc \in BeginInputs(op) :
         LET existingIncident == PortGetIncidentById(store, id)
             err == BeginChecks(op, id, inc, existingIncident)
             r == [Idle EXCEPT !.op = op, !.id = id, !.inc = inc,
                               !.snap = existingIncident.estado,
                               !.torn = Exists(store, id) /\ Torn(p, id)]
         IN reqs' = [reqs EXCEPT ![p] =
              IF err # "" THEN Ended(r, err)
              ELSE IF op = "get" THEN Ended(r, "row")
              ELSE IF op = "assign"
                   THEN [r EXCEPT !.pc = IF FirstAssignment(existingIncident, inc.soporteId)
                                          THEN "wstatus" ELSE "wassign"]
              ELSE [r EXCEPT !.pc = "write"]]
  /\ UNCHANGED <<store, nextId, last, now, queryVars>>

\* the single gateway write of updateIncident, changeIncidentStatus, deleteIncident
StepWrite(p) ==
  /\ reqs[p].pc = "write"
  /\ LET r == reqs[p]
         out == CASE r.op = "update" -> PortUpdateIncident(store, r.id, IncidentToUpdate(r.inc))
                  [] r.op = "changeStatus" -> PortChangeIncidentStatus(store, r.id, r.inc.estado)
                  [] OTHER -> PortDeleteIncident(store, r.id)
     IN /\ store' = out.st
        /\ reqs' = [reqs EXCEPT ![p] =
             Ended([r EXCEPT !.sw = out.sw # <<>>,
                             !.stale = /\ out.sw # <<>>
                                       /\ out.sw[1] # r.snap
                                       /\ out.sw[1] # out.sw[2]
                                       /\ ~ValidStatusTransition(out.sw[1], out.sw[2])],
                   out.res)]
  /\ UNCHANGED <<nextId, last, now, queryVars>>

\* assignIncident, first assignment: port.changeIncidentStatus(id, "en_progreso")
StepForce(p) ==
  /\ reqs[p].pc = "wstatus"
  /\ LET out == PortChangeIncidentStatus(store, reqs[p].id, "en_progreso") IN
       /\ store' = out.st
       /\ reqs' = [reqs EXCEPT ![p].pc = "wassign", ![p].sw = TRUE]
  /\ UNCHANGED <<nextId, last, now, queryVars>>

\* assignIncident: port.assignIncident(id, soporteId)
StepAssign(p) ==
  /\ reqs[p].pc = "wassign"
  /\ LET out == PortAssignIncident(store, reqs[p].id, reqs[p].inc.soporteId) IN
       /\ store' = out.st
       /\ reqs' = [reqs EXCEPT ![p] = Ended([reqs[p] EXCEPT !.aw = TRUE], out.res)]
  /\ UNCHANGED <<nextId, last, now, queryVars>>

\* the repository call of a gateway write rejects: the adapter logs and
\* rethrows, the service lets the error through
GatewayFails(p) ==
  /\ reqs[p].pc \in {"write", "wstatus", "wassign"}
  /\ reqs[p].op # "delete"
  /\ reqs' = [reqs EXCEPT ![p] = Ended(reqs[p], ErrInfra)]
  /\ UNCHANGED <<store, nextId, last, now, queryVars>>

\* the response is sent
Finish(p) ==
  /\ reqs[p].pc = "done"
  /\ reqs' = [reqs EXCEPT ![p] = Idle]
  /\ UNCHANGED <<store, nextId, last, now, queryVars>>

\* createIncident makes one gateway call, its last step
ConcCreate ==
  \E inc \in CreateInputs :
    /\ nextId <= MaxIncidents
    /\ SvcCreateIncident(store, nextId, inc).res = "id"
    /\ store' = SvcCreateIncident(store, nextId, inc).st
    /\ nextId' = nextId + 1
    /\ UNCHANGED <<last, reqs, now, queryVars>>

AllOps == {"update", "changeStatus", "assign", "delete", "get"}

ConcNext ==
  \/ ConcCreate
  \/ \E p \in Procs : Begin(p, AllOps)
  \/ \E p \in Procs : StepWrite(p)
  \/ \E p \in Procs : StepForce(p)
  \/ \E p \in Procs : StepAssign(p)
  \/ \E p \in Procs : GatewayFails(p)
  \/ \E p \in Procs : Finish(p)

SpecConc == Init /\ [][ConcNext]_vars

RaceNext ==
  \/ ConcCreate
  \/ \E p \in Procs : Begin(p, {"changeStatus"})
  \/ \E p \in Procs : StepWrite(p)
  \/ \E p \in Procs : Finish(p)

SpecRace == Init /\ [][RaceNext]_vars

(* --------- SpecData: the operations over every property of a row -------- *)
\* each call reads the clock once and the clock then advances, so that
\* creado_en and actualizado_en of different calls can be told apart
Tick == now < MaxTime /\ now' = now + 1

DataCreate ==
  /\ Tick
  /\ \E inc \in DataCreateInputs :
       /\ nextId <= MaxIncidents
       /\ LET out == SvcCreateIncident(store, nextId, inc) IN
            /\ Done("create", nextId, inc, out)
            /\ nextId' = IF out.res = "id" THEN nextId + 1 ELSE nextId

DataGet ==
  /\ Tick
  /\ \E id \in IdInputs :
       /\ Done("get", id, NoInput, SvcGetIncidentById(store, id))
       /\ UNCHANGED nextId

DataUpdate ==
  /\ Tick
  /\ \E id \in IdInputs, inc \in DataUpdateInputs :
       /\ Done("update", id, inc, SvcUpdateIncident(store, id, inc))
       /\ UNCHANGED nextId

DataChangeStatus ==
  /\ Tick
  /\ \E id \in IdInputs, nuevoEstado \in EstadoInputs :
       /\ Done("changeStatus", id, [NoInput EXCEPT !.estado = nuevoEstado],
               SvcChangeIncidentStatus(store, id, nuevoEstado))
       /\ UNCHANGED nextId

DataAssign ==
  /\ Tick
  /\ \E id \in IdInputs, soporteId \in SoporteInputs :
       /\ Done("assign", id, [NoInput EXCEPT !.soporteId = soporteId],
               SvcAssignIncident(store, id, soporteId))
       /\ UNCHANGED nextId

DataDelete ==
  /\ Tick
  /\ \E id \in IdInputs :
       /\ Done("delete", id, NoInput, SvcDeleteIncident(store, id))
       /\ UNCHANGED nextId

DataNext ==
  \/ DataCreate
  \/ DataGet
  \/ DataUpdate
  \/ DataChangeStatus
  \/ DataAssign
  \/ DataDelete

SpecData == Init /\ [][DataNext]_vars

(* ------ SpecStats: the queries over a stored set of incidents ---------- *)
StatRow(e, c, p, d) ==
  [estado |-> e, usuarioId |-> 1, soporteId |-> Null, categoriaId |-> c, prioridadId |-> p,
   creadoEn |-> 0, actualizadoEn |-> d]

\* resolution times: none, half an hour, one hour, an hour and a half, three hours
StatDurations == {1, UnitsPerHour, UnitsPerHour + 1, 3 * UnitsPerHour}

\* category and priority of a row: rows of categorias and prioridades (the
\* foreign keys of incidencias)
StatRefPairs ==
  {<<c, 1>> : c \in Refs} \cup {<<1, p>> : p \in Refs}

StatRows ==
  {StatRow(e, cp[1], cp[2], 0) : e \in Estados, cp \in StatRefPairs}
  \cup {StatRow("cerrada", 1, 1, d) : d \in StatDurations}

\* the stored incidents: up to MaxRows rows
StatStores == UNION {[1..n -> StatRows] : n \in 0..MaxRows}

StatFiltros ==
  {NoFiltro, [NoFiltro EXCEPT !.categoriaId = 1], [NoFiltro EXCEPT !.usuarioId = 2],
   [NoFiltro EXCEPT !.fechaHasta = 0]}

ListFiltros ==
  {NoFiltro}
  \cup {[NoFiltro EXCEPT !.estado = x] : x \in Estados \cup {InvalidEstado}}
  \cup {[NoFiltro EXCEPT !.usuarioId = x] : x \in BadIds \cup {1}}
  \cup {[NoFiltro EXCEPT !.soporteId = x] : x \in BadIds \cup {1}}
  \cup {[NoFiltro EXCEPT !.categoriaId = x] : x \in BadIds \cup {1}}
  \cup {[NoFiltro EXCEPT !.prioridadId = x] : x \in BadIds \cup {1}}
  \cup {[NoFiltro EXCEPT !.fechaDesde = x] : x \in {0, 1}}
  \cup {[NoFiltro EXCEPT !.fechaHasta = x] : x \in {0, 1}}
  \cup {[NoFiltro EXCEPT !.fechaDesde = x, !.fechaHasta = y] : x \in {0, 1}, y \in {0, 1}}
  \cup {[NoFiltro EXCEPT !.fechaDesde = 1, !.fechaHasta = 0, !.estado = "abierta"]}

InitStats ==
  /\ store = [i \in Ids |-> NoRow]
  /\ nextId = 1
  /\ last = [op |-> "none", id |-> 0, inc |-> NoInput, pre |-> NoRow, res |-> "",
             sw |-> <<>>, got |-> NoRow]
  /\ reqs = [p \in Procs |-> Idle]
  /\ now = 0
  /\ stat \in {[NoStat EXCEPT !.rows = r] : r \in StatStores}
  /\ cats = Unused
  /\ creqs = Unused
  /\ http = NoResponse

IncidentVars == <<store, nextId, last, reqs, now>>

\* getIncidentStatistics, implementation with grouped queries
StatGrouped ==
  \E f \in StatFiltros, ok \in BOOLEAN :
    /\ "grouped" \notin stat.ran /\ "list" \notin stat.ran
    /\ stat.ran = {} \/ f = stat.filtro
    /\ ok \/ HasConditions(f)
    /\ stat' = [stat EXCEPT !.filtro = f, !.ran = @ \cup {"grouped"},
                            !.grouped = IF ok THEN GroupedStatistics(stat.rows, f)
                                        ELSE StatFailed]
    /\ UNCHANGED <<IncidentVars, cats, creqs, http>>

\* getIncidentStatistics, implementation with a reduction in memory. Its
\* query selects categoria.nombre_categoria while the Category entity maps
\* the column nombre: the database answers it or rejects it
StatMemory ==
  \E f \in StatFiltros, ok \in BOOLEAN :
    /\ "memory" \notin stat.ran /\ "list" \notin stat.ran
    /\ stat.ran = {} \/ f = stat.filtro
    /\ stat' = [stat EXCEPT !.filtro = f, !.ran = @ \cup {"memory"},
                            !.memory = IF ok THEN MemoryStatistics(stat.rows, f)
                                        ELSE StatFailed]
    /\ UNCHANGED <<IncidentVars, cats, creqs, http>>

\* getAllIncidents
ListIncidents ==
  \E f \in ListFiltros :
    /\ stat.ran = {}
    /\ stat' = [stat EXCEPT !.filtro = f, !.ran = {"list"},
                            !.listed = SvcGetAllIncidents(stat.rows, f)]
    /\ UNCHANGED <<IncidentVars, cats, creqs, http>>

StatsNext ==
  \/ StatGrouped
  \/ StatMemory
  \/ ListIncidents

SpecStats == InitStats /\ [][StatsNext]_vars

(* --- SpecCat: createCategory and updateCategory, interleaved at awaits --- *)
CatNameInputs == {Nombre(t, p) : t \in 1..MaxNames, p \in 0..MaxPad}

InitCat ==
  /\ store = [i \in Ids |-> NoRow]
  /\ nextId = 1
  /\ last = [op |-> "none", id |-> 0, inc |-> NoInput, pre |-> NoRow, res |-> "",
             sw |-> <<>>, got |-> NoRow]
  /\ reqs = [p \in Procs |-> Idle]
  /\ now = 0
  /\ stat = Unused
  /\ cats = NoCats
  /\ creqs = [p \in Procs |-> CatIdle]
  /\ http = NoResponse

\* the call has returned or thrown: its name and its outcome remain
CatEnded(r, res) == [r EXCEPT !.pc = "done", !.id = 0, !.res = res]

\* creates under way that have not written yet
PendingCreates == {q \in Procs : creqs[q].op = "create" /\ creqs[q].pc \in {"lookup", "write"}}

\* a call arrives and passes the validation of its name
CatBegin(p) ==
  /\ creqs[p].pc \in {"idle", "done"}
  /\ \E op \in {"create", "update"}, n \in CatNameInputs, id \in CatIds :
       /\ op = "create" => id = 1 /\ Cardinality(PendingCreates) < Cardinality(FreeCatIds(cats))
       /\ ValidateCategoryData(n) = ""
       /\ creqs' = [creqs EXCEPT ![p] =
            [op |-> op, id |-> IF op = "create" THEN 0 ELSE id, nombre |-> n,
             pc |-> IF op = "create" THEN "lookup" ELSE "exists", res |-> ""]]
  /\ UNCHANGED <<IncidentVars, stat, cats, http>>

\* updateCategory: await port.getCategoryById(id)
CatExists(p) ==
  /\ creqs[p].pc = "exists"
  /\ creqs' = [creqs EXCEPT ![p] =
       IF cats[@.id] = NoCat THEN CatEnded(@, ErrCatNoEncontrada) ELSE [@ EXCEPT !.pc = "lookup"]]
  /\ UNCHANGED <<IncidentVars, stat, cats, http>>

\* await port.getCategoryByName(category.nombre): the name as given
CatLookup(p) ==
  /\ creqs[p].pc = "lookup"
  /\ LET r == creqs[p]
         found == PortGetCategoryByName(cats, r.nombre)
         err == IF r.op = "create" THEN CreateCategoryChecks(found)
                ELSE UpdateCategoryChecks(found, r.id)
     IN creqs' = [creqs EXCEPT ![p] =
          IF err # "" THEN CatEnded(r, err) ELSE [r EXCEPT !.pc = "write"]]
  /\ UNCHANGED <<IncidentVars, stat, cats, http>>

\* await port.createCategory / port.updateCategory with nombre.trim()
CatWrite(p) ==
  /\ creqs[p].pc = "write"
  /\ LET r == creqs[p]
         out == IF r.op = "create" THEN PortCreateCategory(cats, TrimNombre(r.nombre))
                ELSE PortUpdateCategory(cats, r.id, TrimNombre(r.nombre))
     IN /\ cats' = out.cats
        /\ creqs' = [creqs EXCEPT ![p] = CatEnded(r, out.res)]
  /\ UNCHANGED <<IncidentVars, stat, http>>

CatNext ==
  \E p \in Procs :
    \/ CatBegin(p)
    \/ CatExists(p)
    \/ CatLookup(p)
    \/ CatWrite(p)

SpecCat == InitCat /\ [][CatNext]_vars

(* ------------- SpecHttp: the requests of the incident routes ----------- *)
HttpCreateBodies ==
  {[BaseInput EXCEPT !.titulo = t, !.usuarioId = u, !.soporteId = sp] :
     t \in {TituloOk, Str(1, MinTitulo - 1, TRUE), Str(0, MinTitulo - 1, TRUE)},
     u \in {0, 1}, sp \in {Undef, Null, 0, 1, 2}}

HttpUpdateBodies ==
  {[NoInput EXCEPT !.estado = e, !.soporteId = sp] :
     e \in Estados \cup {NoEstado, InvalidEstado}, sp \in {Undef, Null, 0, 2}}
  \cup {[NoInput EXCEPT !.titulo = t] : t \in {TituloOk, Str(0, MinTitulo - 1, TRUE)}}

\* the request has been answered
HttpDone(op, id, inc, out, called, status) ==
  /\ store' = out.st
  /\ last' = [op |-> op, id |-> id, inc |-> inc, pre |-> Row(store, id),
              res |-> out.res, sw |-> out.sw, got |-> NoRow]
  /\ http' = [status |-> status, called |-> called]
  /\ UNCHANGED <<reqs, now, stat, cats, creqs>>

\* the controller answers 400 itself
Rejected == Out(ErrController, store, <<>>)

\* POST /incidents
HttpCreateIncident ==
  \E body \in HttpCreateBodies :
    /\ nextId <= MaxIncidents
    /\ IF ~CtlCreateAccepts(body)
       THEN /\ HttpDone("create", nextId, body, Rejected, FALSE, 400)
            /\ UNCHANGED nextId
       ELSE LET incident == CtlCreateIncidentOf(body)
                out == SvcCreateIncident(store, nextId, incident)
            IN /\ HttpDone("create", nextId, incident, out, TRUE,
                           CtlStatus(out.res, 201, CreateWords))
               /\ nextId' = IF out.res = "id" THEN nextId + 1 ELSE nextId

\* PUT /incidents/:id
HttpUpdateIncident ==
  \E id \in IdInputs, body \in HttpUpdateBodies :
    /\ IF ~CtlUpdateAccepts(id, body)
       THEN HttpDone("update", id, body, Rejected, FALSE, 400)
       ELSE LET out == SvcUpdateIncident(store, id, CtlIncidentUpdateOf(body))
            IN HttpDone("update", id, CtlIncidentUpdateOf(body), out, TRUE,
                        CtlStatus(out.res, 200, UpdateWords))
    /\ UNCHANGED nextId

\* PATCH /incidents/:id/status
HttpChangeIncidentStatus ==
  \E id \in IdInputs, estado \in Estados \cup {InvalidEstado} :
    /\ IF ~CtlChangeStatusAccepts(id, estado)
       THEN HttpDone("changeStatus", id, [NoInput EXCEPT !.estado = estado], Rejected, FALSE, 400)
       ELSE LET out == SvcChangeIncidentStatus(store, id, estado)
            IN HttpDone("changeStatus", id, [NoInput EXCEPT !.estado = estado], out, TRUE,
                        CtlStatus(out.res, 200, ChangeStatusWords))
    /\ UNCHANGED nextId

\* PATCH /incidents/:id/assign
HttpAssignIncident ==
  \E id \in IdInputs, soporteId \in {Undef, Null, 0, 1, 2} :
    /\ IF ~CtlAssignAccepts(id, soporteId)
       THEN HttpDone("assign", id, [NoInput EXCEPT !.soporteId = soporteId], Rejected, FALSE, 400)
       ELSE LET out == SvcAssignIncident(store, id, soporteId)
            IN HttpDone("assign", id, [NoInput EXCEPT !.soporteId = soporteId], out, TRUE,
                        CtlStatus(out.res, 200, AssignWords))
    /\ UNCHANGED nextId

\* DELETE /incidents/:id: the route calls the controller's deleteIncident,
\* which does not call the service; the route answers 500 when it throws
\* and nothing when it returns
HttpDeleteIncident ==
  \E id \in IdInputs :
    /\ LET out == CtlDeleteIncident(store, id)
       IN HttpDone("delete", id, NoInput, out, FALSE,
                   IF out.res = ErrEliminar THEN 500 ELSE 0)
    /\ UNCHANGED nextId

HttpNext ==
  \/ HttpCreateIncident
  \/ HttpUpdateIncident
  \/ HttpChangeIncidentStatus
  \/ HttpAssignIncident
  \/ HttpDeleteIncident

SpecHttp == Init /\ [][HttpNext]_vars

(* ------------------------------ claims --------------------------------- *)
\* the transition table as the specification states it
TransitionTable ==
  {<<"abierta", "en_progreso">>, <<"abierta", "cerrada">>,
   <<"en_progreso", "abierta">>, <<"en_progreso", "cerrada">>,
   <<"cerrada", "abierta">>}

\* C1: changeIncidentStatus(id, t) on a stored incident of status s returns
\* true and stores t iff (s, t) is in the transition table; otherwise it
\* throws the transition error and the stored status stays s.
C1_ChangeStatusIffAllowed ==
  (last.op = "changeStatus" /\ last.pre # NoRow) =>
    IF <<last.pre.estado, last.inc.estado>> \in TransitionTable
    THEN last.res = "true" /\ store[last.id].estado = last.inc.estado
    ELSE last.res = ErrTransicion /\ store[last.id] = last.pre

C1_Witness ==
  /\ last.op = "changeStatus" /\ last.pre.estado = "cerrada"
  /\ last.inc.estado = "abierta" /\ last.res = "true"
  /\ store[last.id].estado = "abierta"

\* C2: with operations running to completion one at a time, every change of
\* a stored incident's status is an edge of the transition table (so no
\* operation moves an incident from cerrada to en_progreso).
C2_StatusChangesFollowTable ==
  [][\A id \in Ids :
       (store[id] # NoRow /\ store'[id].estado # store[id].estado)
         => <<store[id].estado, store'[id].estado>> \in TransitionTable]_vars

C2_Witness ==
  /\ last.op = "update" /\ last.pre.estado = "cerrada"
  /\ last.res = "true" /\ store[last.id].estado = "abierta"

\* C3: assignIncident on an incident whose status is cerrada throws the
\* "cannot assign a closed incident" error for every soporteId, and the
\* stored status and assignee are unchanged.
C3_AssignClosedFails ==
  (last.op = "assign" /\ last.pre # NoRow /\ last.pre.estado = "cerrada") =>
    /\ last.res = ErrAsignarCerrada
    /\ store[last.id].estado = last.pre.estado
    /\ store[last.id].soporteId = last.pre.soporteId

C3_Witness ==
  /\ last.op = "assign" /\ last.pre.estado = "cerrada"
  /\ last.inc.soporteId \in Users /\ last.res = ErrAsignarCerrada

\* C4: assignIncident(id, X), X not null, on an unassigned incident whose
\* status is abierta or en_progreso ends with status en_progreso and
\* assignee X.
C4_FirstAssignment ==
  (/\ last.op = "assign" /\ last.inc.soporteId \in Users
   /\ last.pre # NoRow /\ last.pre.soporteId = Null
   /\ last.pre.estado \in {"abierta", "en_progreso"}) =>
    /\ store[last.id].estado = "en_progreso"
    /\ store[last.id].soporteId = last.inc.soporteId

C4_Witness ==
  /\ last.op = "assign" /\ last.inc.soporteId \in Users
  /\ last.pre.estado = "abierta" /\ last.pre.soporteId = Null
  /\ store[last.id].estado = "en_progreso"
  /\ store[last.id].soporteId = last.inc.soporteId

\* C5 (as claimed): the status write of assignIncident passes the transition
\* check: it is issued only along an edge of the transition table.
C5_Original ==
  (last.op = "assign" /\ last.sw # <<>>) => <<last.sw[1], last.sw[2]>> \in TransitionTable

\* C5 (amended): assignIncident writes the status without the transition
\* check: it writes en_progreso exactly on a first assignment of an incident
\* that is not cerrada, from abierta (an edge of the table) or from
\* en_progreso (a same-state write, no edge of the table).
C5_AssignStatusWrite ==
  (last.op = "assign" /\ last.pre # NoRow) =>
    /\ last.sw # <<>> <=>
         /\ last.inc.soporteId \in Users /\ last.pre.soporteId = Null
         /\ last.pre.estado # "cerrada"
    /\ last.sw # <<>> =>
         /\ last.sw[2] = "en_progreso"
         /\ last.sw[1] = last.pre.estado
         /\ last.sw[1] \in {"abierta", "en_progreso"}

C5_Witness ==
  /\ last.op = "assign" /\ last.res = "true"
  /\ last.sw = <<"en_progreso", "en_progreso">>

\* C6 (as claimed): a first assignment is atomic: a finished assignIncident
\* that wrote the status also wrote the assignee, and no request reads the
\* incident between the two writes.
C6_Original ==
  \A p \in Procs :
    /\ (reqs[p].op = "assign" /\ reqs[p].pc = "done" /\ reqs[p].sw) => reqs[p].aw
    /\ ~reqs[p].torn

\* C7: a changeIncidentStatus that passed validateStatusTransition against
\* the status it read writes its target whatever the stored status is by
\* then: the gateway write is unconditional and returns true.
C7_UnconditionalWrite ==
  [][\A p \in Procs :
       (reqs[p].op = "changeStatus" /\ reqs[p].pc = "write") =>
         /\ <<reqs[p].snap, reqs[p].inc.estado>> \in TransitionTable
         /\ reqs'[p].pc = "done" =>
              /\ reqs'[p].res = "true"
              /\ store'[reqs[p].id].estado = reqs[p].inc.estado]_vars

\* two calls read the same status, both passed the check and both wrote;
\* the second write moved the status along a pair outside the table
C7_Witness ==
  \E p \in Procs : \E q \in Procs \ {p} :
    /\ reqs[p].op = "changeStatus" /\ reqs[q].op = "changeStatus"
    /\ reqs[p].pc = "done" /\ reqs[q].pc = "done"
    /\ reqs[p].res = "true" /\ reqs[q].res = "true"
    /\ reqs[p].id = reqs[q].id /\ reqs[p].snap = reqs[q].snap
    /\ ~reqs[p].stale /\ reqs[q].stale
    /\ store[reqs[q].id].estado = "en_progreso"

\* C8: deleteIncident on an incident whose status is abierta or en_progreso
\* throws the "only closed incidents" error and the incident stays stored
\* with all its fields.
C8_DeleteOpenFails ==
  (/\ last.op = "delete" /\ last.pre # NoRow
   /\ last.pre.estado \in {"abierta", "en_progreso"}) =>
    /\ last.res = ErrSoloCerradas
    /\ store[last.id] = last.pre

C8_Witness ==
  /\ last.op = "delete" /\ last.pre.estado = "en_progreso"
  /\ last.res = ErrSoloCerradas /\ store[last.id] = last.pre

\* C9 (as claimed): deleteIncident on an incident whose status is cerrada
\* returns true and the record is gone (getIncidentById returns null).
C9_Original ==
  (last.op = "delete" /\ last.pre # NoRow /\ last.pre.estado = "cerrada") =>
    /\ last.res = "true"
    /\ PortGetIncidentById(store, last.id) = NoRow

\* C10 (as claimed): every stored incident has no assignee or an assignee
\* other than its reporter.
C10_Original ==
  \A id \in Ids :
    Exists(store, id) =>
      \/ store[id].soporteId = Null
      \/ store[id].soporteId # store[id].usuarioId

\* the last call, one of ops, found its incident
Found(ops) == last.op \in ops /\ last.pre # NoRow

\* C11: createIncident with a soporteId equal to usuarioId fails with a
\* validation error and the gateway's createIncident stores no row.
C11_CreateSameUserFails ==
  (last.op = "create" /\ last.inc.soporteId = last.inc.usuarioId) =>
    /\ last.res \in ValidationErrors
    /\ Row(store, last.id) = NoRow

C11_Witness ==
  /\ last.op = "create" /\ last.inc.usuarioId \in Users
  /\ last.inc.soporteId = last.inc.usuarioId
  /\ last.res = ErrMismoUsuario /\ Row(store, last.id) = NoRow

\* C12: assignIncident and updateIncident leave the stored soporteId of an
\* incident that is cerrada when the call starts as it was.
C12_Original ==
  (Found({"assign", "update"}) /\ last.pre.estado = "cerrada") =>
    store[last.id].soporteId = last.pre.soporteId

\* C13: updateIncident with estado present returns true only for a pair of
\* the transition table; for any other pair it throws a validation error
\* and stores none of the fields of the partial.
C13_UpdateStatusByTable ==
  (Found({"update"}) /\ last.inc.estado # NoEstado) =>
    IF <<last.pre.estado, last.inc.estado>> \in TransitionTable
    THEN last.res = "true" => store[last.id].estado = last.inc.estado
    ELSE last.res \in ValidationErrors /\ store[last.id] = last.pre

C13_Witness ==
  /\ Found({"update"}) /\ last.pre.estado = "cerrada"
  /\ last.inc.estado = "en_progreso" /\ last.inc.soporteId \in Users
  /\ last.pre.soporteId = Null
  /\ last.res = ErrTransicion /\ store[last.id] = last.pre

\* C14: updateIncident with a soporteId, categoriaId or prioridadId that is
\* zero or negative throws a validation error and stores nothing.
C14_Original ==
  (/\ Found({"update"})
   /\ \/ last.inc.soporteId \in BadIds
      \/ last.inc.categoriaId \in BadIds
      \/ last.inc.prioridadId \in BadIds) =>
    last.res \in ValidationErrors /\ store[last.id] = last.pre

\* C15: assignIncident(id, null) on an incident that is abierta or
\* en_progreso returns true and leaves it with no assignee, whether or not
\* it had one.
C15_UnassignSucceeds ==
  (/\ Found({"assign"}) /\ last.inc.soporteId = Null
   /\ last.pre.estado \in {"abierta", "en_progreso"}) =>
    /\ last.res = "true"
    /\ store[last.id].soporteId = Null
    /\ PortGetIncidentById(store, last.id).soporteId = Undef

C15_Witness ==
  /\ Found({"assign"}) /\ last.inc.soporteId = Null
  /\ last.pre.estado = "en_progreso" /\ last.pre.soporteId \in Users
  /\ last.res = "true" /\ store[last.id].soporteId = Null

\* the input of createIncident after trim(): a property that is not a
\* string is left as given
Normalized(s) == IF IsStr(s) THEN Trim(s) ELSE s

\* C16: getIncidentById of the id a createIncident returned yields the
\* trimmed titulo and descripcion of the input, its usuarioId, categoriaId,
\* prioridadId and soporteId, and its estado, or abierta when it gave none.
C16_Original ==
  [][(/\ last.op = "create" /\ last.res = "id"
      /\ last'.op = "get" /\ last'.id = last.id /\ last'.res = "row") =>
       /\ last'.got.titulo = Normalized(last.inc.titulo)
       /\ last'.got.descripcion = Normalized(last.inc.descripcion)
       /\ last'.got.usuarioId = last.inc.usuarioId
       /\ last'.got.categoriaId = last.inc.categoriaId
       /\ last'.got.prioridadId = last.inc.prioridadId
       /\ last'.got.soporteId = last.inc.soporteId
       /\ last'.got.estado = IF last.inc.estado = NoEstado THEN "abierta"
                             ELSE last.inc.estado]_vars

\* C17: a call that throws a validation error or the not-found error has
\* written nothing: every row of the store is as it was before the call.
C17_FailedCallWritesNothing ==
  [][(last'.res \in ValidationErrors \cup {ErrNoEncontrada}) => store' = store]_vars

C17_Witness ==
  /\ Found({"update"}) /\ last.res = ErrTituloCorto
  /\ last.inc.estado # NoEstado
  /\ <<last.pre.estado, last.inc.estado>> \in TransitionTable
  /\ store[last.id] = last.pre

\* C18 as stated: updateIncident, changeIncidentStatus, assignIncident and
\* deleteIncident with an id that matches no row all throw "Incidencia no
\* encontrada" and leave the store as it was.
C18_Original ==
  [][(last'.op \in {"update", "changeStatus", "assign", "delete"} /\ last'.pre = NoRow) =>
       last'.res = ErrNoEncontrada /\ store' = store]_vars

\* C18: with an id that matches no row, updateIncident, changeIncidentStatus
\* and assignIncident throw "Incidencia no encontrada", and so does
\* deleteIncident for a positive id; deleteIncident with an id that is not
\* positive throws the id-positivity error. The store is left as it was.
C18_UnknownIdFails ==
  [][(last'.op \in {"update", "changeStatus", "assign", "delete"} /\ last'.pre = NoRow) =>
       /\ last'.res = IF last'.op = "delete" /\ last'.id <= 0 THEN ErrIdPositivo
                      ELSE ErrNoEncontrada
       /\ store' = store]_vars

C18_Witness ==
  /\ last.op = "assign" /\ last.id > 0 /\ last.pre = NoRow
  /\ last.res = ErrNoEncontrada /\ store[last.id] = NoRow

\* the properties of a row that the partial of the last updateIncident did
\* not supply are as they were
UnsuppliedKept ==
  /\ last.inc.titulo = NoStr => store[last.id].titulo = last.pre.titulo
  /\ last.inc.descripcion = NoStr => store[last.id].descripcion = last.pre.descripcion
  /\ last.inc.estado = NoEstado => store[last.id].estado = last.pre.estado
  /\ last.inc.soporteId = Undef => store[last.id].soporteId = last.pre.soporteId
  /\ last.inc.categoriaId = Undef => store[last.id].categoriaId = last.pre.categoriaId
  /\ last.inc.prioridadId = Undef => store[last.id].prioridadId = last.pre.prioridadId

\* usuarioId and creadoEn of the row are as they were (the id is the key
\* under which the row is stored)
ImmutablesKept ==
  /\ store[last.id].usuarioId = last.pre.usuarioId
  /\ store[last.id].creadoEn = last.pre.creadoEn

\* C19 as stated: every field the partial of updateIncident does not supply
\* keeps its stored value, and usuarioId, id and creadoEn are not changed by
\* updateIncident, changeIncidentStatus or assignIncident.
C19_Original ==
  /\ Found({"update"}) =>
       UnsuppliedKept /\ store[last.id].actualizadoEn = last.pre.actualizadoEn
  /\ Found({"update", "changeStatus", "assign"}) => ImmutablesKept

\* C19: every field other than actualizadoEn that the partial of
\* updateIncident does not supply keeps its stored value (actualizadoEn is
\* refreshed by a write that changes the row), and usuarioId, id and
\* creadoEn are not changed by updateIncident, changeIncidentStatus or
\* assignIncident.
C19_UpdateFrame ==
  /\ Found({"update"}) => UnsuppliedKept
  /\ Found({"update", "changeStatus", "assign"}) => ImmutablesKept

C19_Witness ==
  /\ Found({"update"}) /\ last.res = "true"
  /\ last.inc.usuarioId \in Users /\ last.inc.usuarioId # last.pre.usuarioId
  /\ last.inc.estado # NoEstado /\ store[last.id].estado # last.pre.estado
  /\ store[last.id].actualizadoEn # last.pre.actualizadoEn
  /\ UnsuppliedKept /\ ImmutablesKept

\* C20: the titulo of every stored incident has between 5 and 150
\* characters, titles given with leading or trailing whitespace included.
C20_Original ==
  \A i \in Ids :
    store[i] # NoRow =>
      Length(store[i].titulo) >= MinTitulo /\ Length(store[i].titulo) <= MaxTitulo

\* the last call was createIncident with a titulo of allowed characters that
\* is not blank, and every other property valid
CreateWithTitle ==
  /\ last.op = "create" /\ [last.inc EXCEPT !.titulo = TituloOk] = BaseInput
  /\ IsStr(last.inc.titulo) /\ last.inc.titulo.ok /\ last.inc.titulo.txt > 0

\* C21: with otherwise valid input createIncident throws a validation error
\* for a titulo of 4 and of 151 characters and accepts one of 5 and of 150.
C21_TitleBoundaries ==
  CreateWithTitle =>
    /\ Length(last.inc.titulo) = MinTitulo - 1 => last.res = ErrTituloCorto
    /\ Length(last.inc.titulo) = MaxTitulo + 1 => last.res = ErrTituloLargo
    /\ Length(last.inc.titulo) \in {MinTitulo, MaxTitulo} =>
         last.res = "id" /\ store[last.id].titulo = Trim(last.inc.titulo)
    /\ last.res \in ValidationErrors => Row(store, last.id) = NoRow

C21_Witness ==
  /\ CreateWithTitle /\ Length(last.inc.titulo) = MaxTitulo
  /\ last.res = "id" /\ Length(store[last.id].titulo) = MaxTitulo

\* C27: every stored incident whose estado is en_progreso has an assignee.
C27_Original ==
  \A i \in Ids : store[i].estado = "en_progreso" => store[i].soporteId \in Users

\* C28: an assignIncident that is not a first assignment (soporteId null, or
\* an incident that already has an assignee) issues no status write and
\* changes soporteId only (actualizadoEn aside): an incident that was
\* assigned, moved back to abierta and reassigned stays abierta.
C28_ReassignKeepsStatus ==
  (/\ Found({"assign"}) /\ last.res = "true"
   /\ (last.inc.soporteId = Null \/ last.pre.soporteId \in Users)) =>
    /\ last.sw = <<>>
    /\ store[last.id].estado = last.pre.estado
    /\ [store[last.id] EXCEPT !.actualizadoEn = last.pre.actualizadoEn]
         = [last.pre EXCEPT !.soporteId = last.inc.soporteId]

C28_Witness ==
  /\ Found({"assign"}) /\ last.res = "true"
  /\ last.pre.estado = "abierta" /\ last.pre.soporteId \in Users
  /\ last.inc.soporteId \in Users /\ last.inc.soporteId # last.pre.soporteId
  /\ store[last.id].estado = "abierta"
  /\ store[last.id].soporteId = last.inc.soporteId

\* the sum of the values of a function
RECURSIVE SumOver(_, _)
SumOver(f, S) ==
  IF S = {} THEN 0
  ELSE LET x == CHOOSE y \in S : TRUE IN f[x] + SumOver(f, S \ {x})

\* the results getIncidentStatistics has returned so far
StatResults ==
  (IF "grouped" \in stat.ran /\ stat.grouped.res = "ok" THEN {stat.grouped} ELSE {})
  \cup (IF "memory" \in stat.ran /\ stat.memory.res = "ok" THEN {stat.memory} ELSE {})

\* the cerrada rows among the rows the filter selects
StatCerradas ==
  SelectSeq(StatSelected(stat.rows, stat.filtro), LAMBDA r : r.estado = "cerrada")

\* C22: the implementation of getIncidentStatistics with grouped queries and
\* the one with a reduction in memory return the same result for the same
\* stored incidents and filter.
C22_Original ==
  ({"grouped", "memory"} \subseteq stat.ran /\ stat.grouped.res = "ok" /\ stat.memory.res = "ok")
    => stat.grouped = stat.memory

\* C23: tiempoPromedioResolucion is undefined exactly when the filter
\* selects no cerrada incident; otherwise it is the mean over the cerrada
\* incidents of actualizadoEn - creadoEn in hours.
C23_Original ==
  \A r \in StatResults :
    /\ r.tiempo = NoTiempo <=> Len(StatCerradas) = 0
    /\ Len(StatCerradas) > 0 =>
         /\ r.tiempo.n = Len(StatCerradas)
         /\ r.tiempo.sum =
              SumSeq([i \in DOMAIN StatCerradas |->
                        StatCerradas[i].actualizadoEn - StatCerradas[i].creadoEn])

\* the filter of the last getAllIncidents has an id that is present and not
\* positive, a fechaDesde later than its fechaHasta, or an estado that is
\* not one of the three
BadFiltro(f) ==
  \/ \E x \in {f.usuarioId, f.soporteId, f.categoriaId, f.prioridadId} : x # Undef /\ x <= 0
  \/ f.fechaDesde # Undef /\ f.fechaHasta # Undef /\ f.fechaDesde > f.fechaHasta
  \/ f.estado # NoEstado /\ f.estado \notin Estados

\* C25: getAllIncidents throws a validation error without querying the
\* gateway for such a filter, and queries the gateway for every other one.
C25_ListValidation ==
  "list" \in stat.ran =>
    IF BadFiltro(stat.filtro)
    THEN stat.listed.res \in FilterErrors /\ ~stat.listed.queried
    ELSE stat.listed.res = "rows" /\ stat.listed.queried

C25_Witness ==
  /\ "list" \in stat.ran
  /\ stat.filtro.fechaDesde # Undef /\ stat.filtro.fechaHasta # Undef
  /\ stat.filtro.fechaDesde > stat.filtro.fechaHasta
  /\ stat.listed.res = ErrFiltroFechas /\ ~stat.listed.queried
  /\ Len(stat.rows) > 0

C30_DistinctNames ==
  \A i, j \in CatIds :
    (i # j /\ cats[i] # NoCat /\ cats[j] # NoCat) => cats[i].nombre # cats[j].nombre

\* a create whose name, given with whitespace, passed the lookup although a
\* row carries it trimmed, and was rejected by the table
C30_Witness ==
  \E p \in Procs :
    /\ creqs[p].op = "create" /\ creqs[p].pc = "done" /\ creqs[p].nombre.pad > 0
    /\ creqs[p].res = ErrCrearCategoria
    /\ \E i \in CatIds : cats[i].nombre = TrimNombre(creqs[p].nombre)

\* C24: on the create, update, change-status and assign endpoints every
\* validation failure of the service is answered with a 4xx status, and a
\* 5xx status answers only failures that are not validation failures.
C24_Original ==
  (last.op \in {"create", "update", "changeStatus", "assign"} /\ http.called) =>
    /\ last.res \in ValidationErrors => (http.status >= 400 /\ http.status < 500)
    /\ http.status >= 500 => last.res \notin ValidationErrors

====
